---- MODULE Spec2Model ----
(***************************************************************************)
(* Model of the EcoSort AI backend's in-memory log store                   *)
(* (Backend/app/log_manager.py) and of the callers that use it             *)
(* (Backend/app/main.py).                                                  *)
(*                                                                         *)
(* The specifications share the store's state:                             *)
(*   Spec     several threads call add_log / clear_logs concurrently;      *)
(*            every read or write of shared state is its own step, the     *)
(*            lock is taken exactly where the code takes it.               *)
(*   SpecRead Spec, with one more thread that runs get_statistics.         *)
(*   SpecStats, SpecQuery, SpecStore                                       *)
(*            one caller at a time; every handler is one step.  Used for   *)
(*            the functional claims about the store's operations.          *)
(*   SpecDecide, SpecPredict                                               *)
(*            AICore and the /predict/image handler applied to an input    *)
(*            drawn in the initial state.                                  *)
(*                                                                         *)
(* Time: `now` counts clock ticks (the resolution of datetime.now()).      *)
(* isoformat() keeps the tick, strftime("...%S") keeps the whole second.   *)
(***************************************************************************)
EXTENDS Integers, Sequences, FiniteSets, TLC

VARIABLES
    logs,        \* LogManager.logs: the list of log entries
    session_id,  \* LogManager.session_id
    lock,        \* LogManager.lock: 0 when free, else the holding thread
    now,         \* the wall clock, in ticks
    pc,          \* per thread: the statement it is about to execute
    arg,         \* per thread: add_log's parameter `detection`
    entry,       \* per thread: add_log's log_entry, as far as it is built
    calls,       \* number of calls started (bounded by MaxCalls)
    cleared,     \* some clear_logs has replaced the list
    rotated,     \* every clear so far assigned a session id unlike the one before
    clearTime,   \* the clock value the latest clear_logs derived its id from
    discarded,   \* the number of entries the latest clear_logs dropped
    quiet,       \* -1: a clear_logs just returned with nothing in flight;
                 \*  t > 0: thread t alone runs the first add_log after that; 0: else
    obs,         \* the sequential specifications: the latest call's arguments
                 \* and what it returned
    reader,      \* SpecRead: the frame of the thread that runs get_statistics
    ai_core      \* the AICore singleton: its model handle and is_loaded

storeVars == <<logs, session_id, lock, now>>
threadVars == <<pc, arg, entry>>
histVars == <<calls, cleared, rotated, clearTime, discarded, quiet>>
vars == <<logs, session_id, lock, now, pc, arg, entry,
          calls, cleared, rotated, clearTime, discarded, quiet, obs, reader, ai_core>>

----------------------------------------------------------------------------
(* Bounds *)

NumThreads == 2
MaxCalls == 3
MaxTime == 2
MaxLogs == 4
MaxQueryLogs == 2

(* One second is TicksPerSec clock ticks. *)
TicksPerSec == 2

Threads == 1..NumThreads

----------------------------------------------------------------------------
(* Values *)

\* Optional[T]: None is <<>>, a supplied value v is <<v>>.
None == <<>>
Some(v) == <<v>>

\* A field of log_entry that add_log has not evaluated yet.
Unset == -1

\* datetime.now().isoformat(): a string of the whole second followed by the
\* fraction of the second; strings compare field by field, left to right.
isoformat(t) == [sec |-> t \div TicksPerSec, frac |-> t % TicksPerSec]

\* datetime.now().strftime("...%H:%M:%S"): the clock truncated to the second.
strftime(t) == t \div TicksPerSec

\* dict.get(key, default)
Get(d, k, default) == IF k \in DOMAIN d THEN d[k] ELSE default

\* Detections as AICore.predict builds them (one per category), and a
\* dictionary that lacks the keys add_log reads.
DetApple ==
    [id |-> 0, class_id |-> 0, class_name |-> "Apple", category |-> "Organic",
     confidence |-> 91, bbox |-> [x1 |-> 1, y1 |-> 1, x2 |-> 5, y2 |-> 5],
     color |-> "#FF6600"]
DetBag ==
    [id |-> 0, class_id |-> 32, class_name |-> "plastic_bag",
     category |-> "Inorganic",
     confidence |-> 77, bbox |-> [x1 |-> 2, y1 |-> 2, x2 |-> 6, y2 |-> 6],
     color |-> "#808080"]
DetPaper ==
    [id |-> 0, class_id |-> 37, class_name |-> "Paper",
     category |-> "Recyclable",
     confidence |-> 64, bbox |-> [x1 |-> 3, y1 |-> 3, x2 |-> 7, y2 |-> 7],
     color |-> "#00FF00"]
DetBare == [class_id |-> 99]

Detections == {DetApple, DetBag, DetPaper, DetBare}

\* The concurrent specification gives every thread a detection of its own,
\* so that an entry in the store shows which caller it came from.
DetOfThread == <<DetApple, DetPaper, DetBag, DetBare>>
ConcDetections(t) == {DetOfThread[((t - 1) % Len(DetOfThread)) + 1]}

NoEntry ==
    [id |-> Unset, timestamp |-> Unset, formatted_time |-> Unset,
     class_name |-> "", category |-> "", confidence |-> Unset,
     bbox |-> <<>>, session_id |-> Unset]

----------------------------------------------------------------------------
(* LogManager.__init__ and AICore.__init__ *)

NoDetection == <<>>

Init ==
    /\ logs = <<>>
    /\ now = 0
    /\ session_id = strftime(0)
    /\ lock = 0
    /\ pc = [t \in Threads |-> "idle"]
    /\ arg = [t \in Threads |-> NoDetection]
    /\ entry = [t \in Threads |-> NoEntry]
    /\ calls = 0
    /\ cleared = FALSE
    /\ rotated = TRUE
    /\ clearTime = 0
    /\ discarded = 0
    /\ quiet = 0
    /\ obs = [call |-> "none"]
    /\ reader = [pc |-> "idle"]
    /\ ai_core = [model |-> <<>>, model_path |-> <<>>, is_loaded |-> FALSE]

\* The clock advances by itself.
Tick ==
    /\ now < MaxTime
    /\ now' = now + 1
    /\ UNCHANGED <<logs, session_id, lock, threadVars, histVars, obs, reader, ai_core>>

----------------------------------------------------------------------------
(* LogManager.add_log, statement by statement.  Each step holds one access *)
(* to the state the threads share.                                         *)

\* "id": len(self.logs) + 1
NextId0(l) == Len(l)
NextId(l) == Len(l) + 1

\* self.logs.append(log_entry)
AppendAtId(l, e) ==
    IF e.id \in 1..Len(l) THEN [l EXCEPT ![e.id] = e] ELSE Append(l, e)
PrependEntry(l, e) == <<e>> \o l
AppendEntry(l, e) == Append(l, e)

\* The fields add_log copies from the detection.
DetectionFields(e, det) ==
    [e EXCEPT !.class_name = Get(det, "class_name", "Unknown"),
              !.category = Get(det, "category", "Unknown"),
              !.confidence = Get(det, "confidence", 0),
              !.bbox = Get(det, "bbox", <<>>)]

OthersIdle(t) == \A u \in Threads \ {t} : pc[u] = "idle"

\* A thread enters add_log(det) and evaluates
\*   "id": len(self.logs) + 1          -- the lock is not held
CallAddLog(t, det) ==
    /\ pc[t] = "idle"
    /\ calls < MaxCalls
    /\ calls' = calls + 1
    /\ arg' = [arg EXCEPT ![t] = det]
    /\ entry' = [entry EXCEPT ![t] = [NoEntry EXCEPT !.id = NextId(logs)]]
    /\ pc' = [pc EXCEPT ![t] = "add_ts"]
    /\ quiet' = IF quiet = -1 /\ OthersIdle(t) THEN t ELSE 0
    /\ UNCHANGED <<storeVars, cleared, rotated, clearTime, discarded, obs, reader, ai_core>>

\* "timestamp": datetime.now().isoformat(),
\* "formatted_time": datetime.now().strftime("%Y-%m-%d %H:%M:%S"),
\* Two readings of the clock; it may advance by d ticks between them.
AddLogReadClock(t) ==
    /\ pc[t] = "add_ts"
    /\ \E d \in 0..(MaxTime - now) :
        /\ entry' = [entry EXCEPT ![t].timestamp = isoformat(now),
                                  ![t].formatted_time = strftime(now + d)]
        /\ now' = now + d
    /\ pc' = [pc EXCEPT ![t] = "add_sid"]
    /\ UNCHANGED <<logs, session_id, lock, arg, histVars, obs, reader, ai_core>>

\* "class_name": ..., "category": ..., "confidence": ..., "bbox": ...,
\* "session_id": self.session_id      -- the lock is not held
AddLogReadSession(t) ==
    /\ pc[t] = "add_sid"
    /\ entry' = [entry EXCEPT ![t] =
                    [DetectionFields(entry[t], arg[t])
                        EXCEPT !.session_id = session_id]]
    /\ pc' = [pc EXCEPT ![t] = "add_append"]
    /\ UNCHANGED <<storeVars, arg, histVars, obs, reader, ai_core>>

\* with self.lock: self.logs.append(log_entry)
\* The critical section is this one statement: the lock is taken when free,
\* the entry appended and the lock released.
AddLogAppend(t) ==
    /\ pc[t] = "add_append"
    /\ lock = 0
    /\ logs' = AppendEntry(logs, entry[t])
    /\ pc' = [pc EXCEPT ![t] = "add_return"]
    /\ UNCHANGED <<session_id, lock, now, arg, entry, histVars, obs, reader, ai_core>>

\* return log_entry
AddLogReturn(t) ==
    /\ pc[t] = "add_return"
    /\ quiet' = 0
    /\ entry' = [entry EXCEPT ![t] = NoEntry]
    /\ arg' = [arg EXCEPT ![t] = NoDetection]
    /\ pc' = [pc EXCEPT ![t] = "idle"]
    /\ UNCHANGED <<storeVars, calls, cleared, rotated, clearTime, discarded, obs, reader, ai_core>>

----------------------------------------------------------------------------
(* LogManager.clear_logs, statement by statement *)

\* A thread enters clear_logs and, once the lock is free, takes it:
\* with self.lock: self.logs = []
ClearLogs(t) ==
    /\ pc[t] = "idle"
    /\ calls < MaxCalls
    /\ calls' = calls + 1
    /\ lock = 0
    /\ lock' = t
    /\ logs' = <<>>
    /\ cleared' = TRUE
    /\ discarded' = Len(logs)
    /\ quiet' = 0
    /\ pc' = [pc EXCEPT ![t] = "clear_sid"]
    /\ UNCHANGED <<session_id, now, arg, entry, rotated, clearTime, obs, reader, ai_core>>

\*     self.session_id = datetime.now().strftime("%Y%m%d_%H%M%S")
\* then the with block ends (the lock is released) and the call returns.
ClearSession(t) ==
    /\ pc[t] = "clear_sid"
    /\ lock = t
    /\ session_id' = strftime(now)
    /\ rotated' = (rotated /\ strftime(now) # session_id)
    /\ clearTime' = now
    /\ lock' = 0
    /\ pc' = [pc EXCEPT ![t] = "idle"]
    /\ quiet' = IF OthersIdle(t) THEN -1 ELSE 0
    /\ UNCHANGED <<logs, now, arg, entry, calls, cleared, discarded, obs, reader, ai_core>>

----------------------------------------------------------------------------
(* The concurrent specification *)

Next ==
    \/ Tick
    \/ \E t \in Threads :
        \/ \E det \in ConcDetections(t) : CallAddLog(t, det)
        \/ AddLogReadClock(t)
        \/ AddLogReadSession(t)
        \/ AddLogAppend(t)
        \/ AddLogReturn(t)
        \/ ClearLogs(t)
        \/ ClearSession(t)

Spec == Init /\ [][Next]_vars

----------------------------------------------------------------------------
(* Claims about concurrent appends and clears (checked under Spec) *)

AllIdle == \A t \in Threads : pc[t] = "idle"

\* The threads that are inside add_log and have not appended yet.
BeforeAppend == {t \in Threads : pc[t] \in {"add_ts", "add_sid", "add_append"}}

\* Two stored entries carry the same id: their add_log calls overlapped.
SomeDuplicateId ==
    \E i, j \in 1..Len(logs) : i # j /\ logs[i].id = logs[j].id

\* C1: after N concurrent add_log calls on a fresh store (no clear_logs)
\* have all returned, the stored ids are exactly 1..N, ascending in list
\* order, without duplicate or gap.
C1_IdsAreOneToN ==
    (~cleared /\ AllIdle) => \A i \in 1..Len(logs) : logs[i].id = i

\* C2: no append is lost.  Without a clear_logs, the store holds one entry
\* per add_log call that has appended (so N entries once N calls have
\* returned), and the entry a call is about to return is in the store.
C2_NoAppendLost ==
    ~cleared =>
        /\ Len(logs) = calls - Cardinality(BeforeAppend)
        /\ \A t \in Threads :
            pc[t] = "add_return" =>
                \E i \in 1..Len(logs) : logs[i] = entry[t]

\* MaxCalls overlapping add_log calls of different threads have all returned.
C2_Witness ==
    /\ ~cleared
    /\ AllIdle
    /\ Len(logs) = MaxCalls
    /\ SomeDuplicateId
    /\ \E i, j \in 1..Len(logs) : logs[i].class_name # logs[j].class_name

\* C3: once clear_logs has returned with no other operation in flight, the
\* store holds no entry and its session id is the one derived at clear
\* time; the next add_log, run alone, creates the only entry, with id 1
\* and the new session id.
C3_ClearThenAdd ==
    /\ quiet = -1 =>
        /\ logs = <<>>
        /\ session_id = strftime(clearTime)
    /\ (quiet \in Threads /\ pc[quiet] = "add_return") =>
        /\ logs = <<entry[quiet]>>
        /\ entry[quiet].id = 1
        /\ entry[quiet].session_id = session_id
        /\ session_id = strftime(clearTime)

\* A clear_logs dropped entries and rotated the session id, and the first
\* add_log after it is about to return.
C3_Witness ==
    /\ quiet \in Threads
    /\ pc[quiet] = "add_return"
    /\ discarded > 0
    /\ session_id # strftime(0)

\* C4: when every clear assigns a session id unlike the previous one, every
\* stored entry carries the store's current session id, in every state.
C4_EntriesCarryCurrentSession ==
    rotated => \A i \in 1..Len(logs) : logs[i].session_id = session_id

----------------------------------------------------------------------------
(* LogManager.get_logs *)

\* datetime.fromisoformat(s): the instant an ISO string denotes.
fromisoformat(s) == s.sec * TicksPerSec + s.frac

\* s1 < s2 on ISO strings (str comparison, as the sort key is compared).
StrLess(s1, s2) ==
    \/ s1.sec < s2.sec
    \/ s1.sec = s2.sec /\ s1.frac < s2.frac

\* Python truth value of an optional list, string and int argument.
TruthyList(o) == o # None /\ o[1] # <<>>
TruthyStr(o) == o # None /\ o[1] # ""
TruthyInt(o) == o # None /\ o[1] # 0
\* An ISO string that denotes an instant is never empty.
TruthyTime(o) == o # None

\* x in lst
InList(lst, x) == \E i \in 1..Len(lst) : lst[i] = x

\* [l for l in filtered if l["class_name"] in class_filter]
FilterClass(f, class_filter) ==
    IF TruthyList(class_filter)
      THEN SelectSeq(f, LAMBDA e : InList(class_filter[1], e.class_name))
      ELSE f

\* [l for l in filtered if l["category"] == category_filter]
FilterCategory(f, category_filter) ==
    IF TruthyStr(category_filter)
      THEN SelectSeq(f, LAMBDA e : e.category = category_filter[1])
      ELSE f

\* [l for l in filtered if datetime.fromisoformat(l["timestamp"]) >= start_dt]
FilterStart(f, start_time) ==
    IF TruthyTime(start_time)
      THEN SelectSeq(f, LAMBDA e :
              fromisoformat(e.timestamp) >= fromisoformat(start_time[1]))
      ELSE f

\* [l for l in filtered if datetime.fromisoformat(l["timestamp"]) <= end_dt]
FilterEnd(f, end_time) ==
    IF TruthyTime(end_time)
      THEN SelectSeq(f, LAMBDA e :
              fromisoformat(e.timestamp) <= fromisoformat(end_time[1]))
      ELSE f

\* list.sort(key=lambda x: x["timestamp"], reverse=True) is stable: entries
\* with equal keys keep the order they had.  InsertDesc puts x, which came
\* after every element of the sorted prefix s, behind the elements whose
\* key is greater than or equal to its own.
RECURSIVE InsertDesc(_, _)
InsertDesc(s, x) ==
    IF s = <<>> THEN <<x>>
    ELSE IF StrLess(Head(s).timestamp, x.timestamp) THEN <<x>> \o s
    ELSE <<Head(s)>> \o InsertDesc(Tail(s), x)

RECURSIVE SortFrom(_, _)
SortFrom(acc, rest) ==
    IF rest = <<>> THEN acc
    ELSE SortFrom(InsertDesc(acc, Head(rest)), Tail(rest))

SortByTimestampDesc(f) == SortFrom(<<>>, f)

Min(a, b) == IF a <= b THEN a ELSE b
Max(a, b) == IF a >= b THEN a ELSE b

\* filtered[:k]
Slice(f, k) ==
    IF k >= 0 THEN SubSeq(f, 1, Min(k, Len(f)))
    ELSE SubSeq(f, 1, Max(0, Len(f) + k))

\* if limit: filtered = filtered[:limit]
ApplyLimit(f, limit) == IF TruthyInt(limit) THEN Slice(f, limit[1]) ELSE f

get_logs(l, limit, class_filter, category_filter, start_time, end_time) ==
    LET filtered ==
            FilterEnd(
                FilterStart(
                    FilterCategory(FilterClass(l, class_filter), category_filter),
                    start_time),
                end_time)
    IN ApplyLimit(SortByTimestampDesc(filtered), limit)

----------------------------------------------------------------------------
(* LogManager.get_statistics *)

\* sum(1 for l in self.logs if l["category"] == c)
CountCategory(l, c) == Cardinality({i \in 1..Len(l) : l[i].category = c})

\* class_counts[cls] = class_counts.get(cls, 0) + 1, for log in self.logs
ClassCounts(l) ==
    [cls \in {l[i].class_name : i \in 1..Len(l)} |->
        Cardinality({i \in 1..Len(l) : l[i].class_name = cls})]

\* round(count / total * 100, 1), as a number of tenths of a percent.
\* round() takes the nearest tenth; a tie goes to the even tenth (no tie
\* arises for a total below 16).
PercentFloor(count, total) == (count * 1000) \div total
Percent(count, total) ==
    LET q == (count * 1000) \div total
        r == (count * 1000) % total
    IN IF 2 * r < total THEN q
       ELSE IF 2 * r > total THEN q + 1
       ELSE IF q % 2 = 0 THEN q ELSE q + 1

get_statistics(l, sid) ==
    IF l = <<>>
      THEN [total_detections |-> 0,
            inorganic_count |-> 0,
            organic_count |-> 0,
            class_counts |-> <<>>,
            inorganic_percentage |-> 0,
            organic_percentage |-> 0]
      ELSE LET inorganic_count == CountCategory(l, "Inorganic")
               organic_count == CountCategory(l, "Organic")
               total == Len(l)
           IN [total_detections |-> total,
               inorganic_count |-> inorganic_count,
               organic_count |-> organic_count,
               class_counts |-> ClassCounts(l),
               inorganic_percentage |->
                   IF total > 0 THEN Percent(inorganic_count, total) ELSE 0,
               organic_percentage |->
                   IF total > 0 THEN Percent(organic_count, total) ELSE 0,
               session_id |-> sid]

\* schemas.StatisticsResponse: every field is required.
StatisticsFields ==
    {"total_detections", "inorganic_count", "organic_count", "class_counts",
     "inorganic_percentage", "organic_percentage", "session_id"}

\* main.get_statistics: StatisticsResponse(**stats).  A missing field raises
\* a validation error, which the framework answers with status 500.
StatisticsEndpoint(l, sid) ==
    LET stats == get_statistics(l, sid)
    IN IF StatisticsFields \subseteq DOMAIN stats
         THEN [status |-> 200, body |-> stats]
         ELSE [status |-> 500]

----------------------------------------------------------------------------
(* The sequential specifications: one caller, every handler one step *)

\* add_log's log_entry, with the clock read as t1 and then t2.
LogEntry(l, det, t1, t2, sid) ==
    [DetectionFields(
        [NoEntry EXCEPT !.id = NextId(l),
                        !.timestamp = isoformat(t1),
                        !.formatted_time = strftime(t2)], det)
        EXCEPT !.session_id = sid]

\* add_log, run alone: both readings of the clock give `now`.
SeqAddLog(det) ==
    /\ Len(logs) < MaxLogs
    /\ LET e == LogEntry(logs, det, now, now, session_id)
       IN /\ logs' = AppendEntry(logs, e)
          /\ obs' = [call |-> "add_log", result |-> e]
    /\ UNCHANGED <<session_id, lock, now, threadVars, histVars, reader, ai_core>>

SeqClearLogs ==
    /\ logs' = <<>>
    /\ session_id' = strftime(now)
    /\ obs' = [call |-> "clear_logs"]
    /\ UNCHANGED <<lock, now, threadVars, histVars, reader, ai_core>>

LimitArgs == {None, Some(0), Some(2)}
ClassFilterArgs == {None, Some(<<>>), Some(<<"Apple", "Paper">>)}
CategoryArgs == {None, Some("Organic")}
TimeArgs == {None, Some(isoformat(1))}

SeqGetLogs(limit, class_filter, category_filter, start_time, end_time) ==
    /\ obs' = [call |-> "get_logs",
               limit |-> limit,
               class_filter |-> class_filter,
               category_filter |-> category_filter,
               start_time |-> start_time,
               end_time |-> end_time,
               result |-> get_logs(logs, limit, class_filter, category_filter,
                                   start_time, end_time)]
    /\ UNCHANGED <<storeVars, threadVars, histVars, reader, ai_core>>

SeqGetStatistics ==
    /\ obs' = [call |-> "get_statistics",
               result |-> get_statistics(logs, session_id)]
    /\ UNCHANGED <<storeVars, threadVars, histVars, reader, ai_core>>

SeqStatisticsEndpoint ==
    /\ obs' = [call |-> "GET /logs/statistics",
               response |-> StatisticsEndpoint(logs, session_id)]
    /\ UNCHANGED <<storeVars, threadVars, histVars, reader, ai_core>>

\* The detections the query specification draws from.
QueryDetections == {DetApple, DetBag, DetPaper}

\* The store and get_statistics.
NextStats ==
    \/ Tick
    \/ \E det \in Detections : SeqAddLog(det)
    \/ SeqClearLogs
    \/ SeqGetStatistics
    \/ SeqStatisticsEndpoint

SpecStats == Init /\ [][NextStats]_vars

\* The store and get_logs.
NextQuery ==
    \/ Tick
    \/ \E det \in QueryDetections : Len(logs) < MaxQueryLogs /\ SeqAddLog(det)
    \/ SeqClearLogs
    \/ \E limit \in LimitArgs, class_filter \in ClassFilterArgs,
          category_filter \in CategoryArgs,
          start_time \in TimeArgs, end_time \in TimeArgs :
            SeqGetLogs(limit, class_filter, category_filter, start_time, end_time)

SpecQuery == Init /\ [][NextQuery]_vars

----------------------------------------------------------------------------
(* Claims about get_statistics (checked under SpecStats) *)

\* The 3-category taxonomy the detector emits, with the keys a statistics
\* dictionary would use for each category.
Taxonomy3 == {"Organic", "Inorganic", "Recyclable"}
CountKey ==
    [Organic |-> "organic_count", Inorganic |-> "inorganic_count",
     Recyclable |-> "recyclable_count"]
PercentKey ==
    [Organic |-> "organic_percentage", Inorganic |-> "inorganic_percentage",
     Recyclable |-> "recyclable_percentage"]

\* The number of stored entries of category c, counted on the list itself.
Stored(c) == Cardinality({i \in 1..Len(logs) : logs[i].category = c})

Abs(x) == IF x < 0 THEN -x ELSE x

\* C5: get_statistics returns the store's session id in every store state,
\* the empty store included, so the /logs/statistics response can always
\* be built from it.
C5_StatisticsCarrySessionId ==
    /\ obs.call = "get_statistics" =>
        /\ "session_id" \in DOMAIN obs.result
        /\ obs.result.session_id = session_id
    /\ obs.call = "GET /logs/statistics" => obs.response.status = 200

\* C9: on a store that holds entries, get_statistics reports for every
\* category of the taxonomy the number of stored entries of that category,
\* the number of stored entries as the total, and for every class name seen
\* the number of entries with that name.
C9_CountForEveryCategory ==
    (obs.call = "get_statistics" /\ logs # <<>>) =>
        LET r == obs.result
        IN /\ \A c \in Taxonomy3 :
                /\ CountKey[c] \in DOMAIN r
                /\ r[CountKey[c]] = Stored(c)
           /\ r.total_detections = Len(logs)
           /\ DOMAIN r.class_counts = {logs[i].class_name : i \in 1..Len(logs)}
           /\ \A cls \in DOMAIN r.class_counts :
                r.class_counts[cls] =
                    Cardinality({i \in 1..Len(logs) : logs[i].class_name = cls})

\* C10: each percentage get_statistics returns (in tenths of a percent) is
\* the tenth nearest to count/total*100, and 0 on the empty store; 3 Organic
\* and 1 Inorganic entries give 75.0 and 25.0.
C10_PercentagesRounded ==
    obs.call = "get_statistics" =>
        LET r == obs.result
            total == Len(logs)
        IN /\ {"organic_percentage", "inorganic_percentage"} \subseteq DOMAIN r
           /\ \A c \in Taxonomy3 :
                PercentKey[c] \in DOMAIN r =>
                    /\ total = 0 => r[PercentKey[c]] = 0
                    /\ total > 0 =>
                        2 * Abs(r[PercentKey[c]] * total - 1000 * Stored(c))
                            <= total
           /\ (total = 4 /\ Stored("Organic") = 3 /\ Stored("Inorganic") = 1) =>
                /\ r.organic_percentage = 750
                /\ r.inorganic_percentage = 250

\* get_statistics has run on 3 Organic entries and 1 Inorganic entry.
C10_Witness ==
    /\ obs.call = "get_statistics"
    /\ Len(logs) = 4
    /\ Stored("Organic") = 3
    /\ Stored("Inorganic") = 1
    /\ obs.result.organic_percentage = 750

----------------------------------------------------------------------------
(* Claims about get_logs (checked under SpecQuery) *)

\* The entry satisfies every filter that call o supplied.
Matches(e, o) ==
    /\ o.class_filter # None => InList(o.class_filter[1], e.class_name)
    /\ o.category_filter # None => e.category = o.category_filter[1]
    /\ o.start_time # None =>
        fromisoformat(o.start_time[1]) <= fromisoformat(e.timestamp)
    /\ o.end_time # None =>
        fromisoformat(e.timestamp) <= fromisoformat(o.end_time[1])

\* C6: the result of get_logs is sorted by timestamp descending, and two
\* returned entries with equal timestamps appear in descending order of id.
C6_NewestFirstTiesByIdDescending ==
    obs.call = "get_logs" =>
        LET r == obs.result
        IN \A i, j \in 1..Len(r) :
            i < j =>
                \/ StrLess(r[j].timestamp, r[i].timestamp)
                \/ /\ r[i].timestamp = r[j].timestamp
                   /\ r[i].id > r[j].id

\* C7: without a limit, get_logs returns exactly the stored entries that
\* satisfy every supplied filter: class name in the list, category equal,
\* start <= timestamp <= end.
C7_FiltersConjunctiveInclusive ==
    (obs.call = "get_logs" /\ obs.limit = None) =>
        {obs.result[i] : i \in 1..Len(obs.result)} =
            {logs[i] : i \in {k \in 1..Len(logs) : Matches(logs[k], obs)}}

\* C8: with a limit k >= 0 supplied, get_logs returns the first min(k, m)
\* entries of the filtered, sorted sequence of m matches.
C8_LimitTakesFirstK ==
    (obs.call = "get_logs" /\ obs.limit # None) =>
        LET full == get_logs(logs, None, obs.class_filter, obs.category_filter,
                             obs.start_time, obs.end_time)
        IN obs.result = SubSeq(full, 1, Min(obs.limit[1], Len(full)))

----------------------------------------------------------------------------
(* LogManager.get_statistics, statement by statement, run by one more      *)
(* thread while the threads of Spec append and clear.  The method takes no *)
(* lock; each statement evaluates self.logs afresh.  A statement that      *)
(* walks the list is taken as one step, reading the list as it is then.    *)

\* if not self.logs: return {...}
StatCall ==
    /\ reader.pc \in {"idle", "stat_done"}
    /\ reader' =
         IF logs = <<>>
           THEN [pc |-> "stat_done", result |-> get_statistics(<<>>, session_id)]
           ELSE [pc |-> "stat_inorganic"]
    /\ UNCHANGED <<storeVars, threadVars, histVars, obs, ai_core>>

\* inorganic_count = sum(1 for l in self.logs if l["category"] == "Inorganic")
StatInorganic ==
    /\ reader.pc = "stat_inorganic"
    /\ reader' = [pc |-> "stat_organic",
                  inorganic_count |-> CountCategory(logs, "Inorganic")]
    /\ UNCHANGED <<storeVars, threadVars, histVars, obs, ai_core>>

\* organic_count = sum(1 for l in self.logs if l["category"] == "Organic")
StatOrganic ==
    /\ reader.pc = "stat_organic"
    /\ reader' = [pc |-> "stat_total",
                  inorganic_count |-> reader.inorganic_count,
                  organic_count |-> CountCategory(logs, "Organic")]
    /\ UNCHANGED <<storeVars, threadVars, histVars, obs, ai_core>>

\* total = len(self.logs)
StatTotal ==
    /\ reader.pc = "stat_total"
    /\ reader' = [pc |-> "stat_classes",
                  inorganic_count |-> reader.inorganic_count,
                  organic_count |-> reader.organic_count,
                  total |-> Len(logs)]
    /\ UNCHANGED <<storeVars, threadVars, histVars, obs, ai_core>>

\* class_counts = {}; for log in self.logs: ...
StatClassCounts ==
    /\ reader.pc = "stat_classes"
    /\ reader' = [pc |-> "stat_return",
                  inorganic_count |-> reader.inorganic_count,
                  organic_count |-> reader.organic_count,
                  total |-> reader.total,
                  class_counts |-> ClassCounts(logs)]
    /\ UNCHANGED <<storeVars, threadVars, histVars, obs, ai_core>>

\* return {..., "session_id": self.session_id}
StatReturn ==
    /\ reader.pc = "stat_return"
    /\ reader' =
         [pc |-> "stat_done",
          result |->
            [total_detections |-> reader.total,
             inorganic_count |-> reader.inorganic_count,
             organic_count |-> reader.organic_count,
             class_counts |-> reader.class_counts,
             inorganic_percentage |->
                 IF reader.total > 0
                   THEN Percent(reader.inorganic_count, reader.total) ELSE 0,
             organic_percentage |->
                 IF reader.total > 0
                   THEN Percent(reader.organic_count, reader.total) ELSE 0,
             session_id |-> session_id]]
    /\ UNCHANGED <<storeVars, threadVars, histVars, obs, ai_core>>

NextRead ==
    \/ Next
    \/ StatCall
    \/ StatInorganic
    \/ StatOrganic
    \/ StatTotal
    \/ StatClassCounts
    \/ StatReturn

SpecRead == Init /\ [][NextRead]_vars

----------------------------------------------------------------------------
(* Claims about get_statistics beside writers (checked under SpecRead) *)

RECURSIVE SumOver(_, _)
SumOver(f, keys) ==
    IF keys = {} THEN 0
    ELSE LET k == CHOOSE x \in keys : TRUE
         IN f[k] + SumOver(f, keys \ {k})

\* The values of a class_counts dictionary, added up.
SumOfCounts(class_counts) == SumOver(class_counts, DOMAIN class_counts)

\* C11: a statistics result returned while add_log and clear_logs run
\* describes one state of the store: its per-class counts add up to
\* total_detections and neither category count exceeds total_detections.
C11_StatisticsAreOneSnapshot ==
    reader.pc = "stat_done" =>
        /\ SumOfCounts(reader.result.class_counts) = reader.result.total_detections
        /\ reader.result.inorganic_count <= reader.result.total_detections
        /\ reader.result.organic_count <= reader.result.total_detections

----------------------------------------------------------------------------
(* LogManager.add_batch_logs and LogManager.export_to_csv, run alone *)

MaxBatch == 2

\* log_entries.append(entry)
CollectEntryFirst(log_entries, e) == <<e>> \o log_entries
CollectEntry(log_entries, e) == Append(log_entries, e)

\* for det in detections: entry = self.add_log(det); log_entries.append(entry)
\* l is the store, dets what is left of `detections`; the clock reads t
\* throughout and the session id is sid.  Gives the store and log_entries
\* the loop ends with.
RECURSIVE BatchLoop(_, _, _, _, _)
BatchLoop(l, dets, log_entries, t, sid) ==
    IF dets = <<>>
      THEN [logs |-> l, log_entries |-> log_entries]
      ELSE LET e == LogEntry(l, Head(dets), t, t, sid)
           IN BatchLoop(AppendEntry(l, e), Tail(dets),
                        CollectEntry(log_entries, e), t, sid)

add_batch_logs(l, detections, t, sid) == BatchLoop(l, detections, <<>>, t, sid)

\* The batches a caller passes: lists of up to MaxBatch detections.
Batches == UNION {[1..n -> Detections] : n \in 0..MaxBatch}

SeqAddBatchLogs(detections) ==
    /\ Len(logs) + Len(detections) <= MaxLogs
    /\ LET r == add_batch_logs(logs, detections, now, session_id)
       IN /\ logs' = r.logs
          /\ obs' = [call |-> "add_batch_logs",
                     detections |-> detections,
                     before |-> logs,
                     clock |-> now,
                     result |-> r.log_entries]
    /\ UNCHANGED <<session_id, lock, now, threadVars, histVars, reader, ai_core>>

\* writer.writerow([...]) and df.columns = [...]
CsvHeader == <<"ID", "Timestamp", "Class", "Category", "Confidence">>

\* df[["id", "formatted_time", "class_name", "category", "confidence"]]
CsvRow(e) == <<e.id, e.formatted_time, e.class_name, e.category, e.confidence>>

\* pd.DataFrame(self.logs): one row per entry, in the order of the list.
CsvRowsNewestFirst(l) ==
    [i \in 1..Len(l) |-> CsvRow(SortByTimestampDesc(l)[i])]
CsvRows(l) == [i \in 1..Len(l) |-> CsvRow(l[i])]

\* filename = f"logs_{self.session_id}.csv" unless one is given
CsvFilename(filename, sid) ==
    IF filename = None THEN <<"logs_", sid, ".csv">> ELSE filename[1]

\* export_to_csv: the path returned and the lines written to the file.
export_to_csv(l, sid, filename) ==
    [path |-> <<"logs", CsvFilename(filename, sid)>>,
     written |-> IF l = <<>> THEN <<CsvHeader>>
                 ELSE <<CsvHeader>> \o CsvRows(l)]

FilenameArgs == {None, Some(<<"export.csv">>)}

\* The file system, as a call that writes a file meets it: the write goes
\* through, or open() or the writer raises OSError.
DiskOutcomes == {"ok", "fails"}

\* export_to_csv on that file system: the path returned and the lines
\* written, or the exception that leaves the method.
ExportCsvSwallowing(l, sid, filename, disk) ==
    [raised |-> FALSE,
     path |-> export_to_csv(l, sid, filename).path,
     written |-> IF disk = "ok" THEN export_to_csv(l, sid, filename).written
                 ELSE <<>>]
ExportCsv(l, sid, filename, disk) ==
    IF disk = "ok"
      THEN [raised |-> FALSE,
            path |-> export_to_csv(l, sid, filename).path,
            written |-> export_to_csv(l, sid, filename).written]
      ELSE [raised |-> TRUE, error |-> "OSError"]

SeqExportCsv(filename, disk) ==
    /\ LET r == ExportCsv(logs, session_id, filename, disk)
       IN obs' = IF r.raised
                   THEN [call |-> "export_to_csv",
                         filename |-> filename,
                         disk |-> disk,
                         before |-> [logs |-> logs, session_id |-> session_id],
                         raised |-> TRUE,
                         error |-> r.error]
                   ELSE [call |-> "export_to_csv",
                         filename |-> filename,
                         disk |-> disk,
                         before |-> [logs |-> logs, session_id |-> session_id],
                         raised |-> FALSE,
                         result |-> r.path,
                         written |-> r.written]
    /\ UNCHANGED <<storeVars, threadVars, histVars, reader, ai_core>>

NextStore ==
    \/ Tick
    \/ \E det \in Detections : SeqAddLog(det)
    \/ \E detections \in Batches : SeqAddBatchLogs(detections)
    \/ SeqClearLogs
    \/ \E filename \in FilenameArgs, disk \in DiskOutcomes :
          SeqExportCsv(filename, disk)

SpecStore == Init /\ [][NextStore]_vars

----------------------------------------------------------------------------
(* Claims about add_batch_logs and export_to_csv (checked under SpecStore) *)

\* The entry add_log returns for detection det on a store of n entries
\* when the clock reads t.
AddLogOutcome(n, det, t) ==
    [id |-> n + 1,
     timestamp |-> isoformat(t),
     formatted_time |-> strftime(t),
     class_name |-> Get(det, "class_name", "Unknown"),
     category |-> Get(det, "category", "Unknown"),
     confidence |-> Get(det, "confidence", 0),
     bbox |-> Get(det, "bbox", <<>>),
     session_id |-> session_id]

\* C12: with no other caller in between, add_batch_logs(ds) on a store of n
\* entries returns what add_log returns for each element of ds in turn
\* (len(ds) entries, in input order, ids n+1..n+len(ds)) and leaves the
\* store as it was followed by exactly those entries; an empty ds leaves
\* the store unchanged.
C12_BatchIsSequenceOfAddLogs ==
    obs.call = "add_batch_logs" =>
        LET n == Len(obs.before)
            ds == obs.detections
        IN /\ Len(obs.result) = Len(ds)
           /\ \A i \in 1..Len(ds) :
                obs.result[i] = AddLogOutcome(n + i - 1, ds[i], obs.clock)
           /\ logs = obs.before \o obs.result
           /\ ds = <<>> => logs = obs.before

C12_Witness ==
    /\ obs.call = "add_batch_logs"
    /\ Len(obs.before) >= 1
    /\ Len(obs.detections) = 2
    /\ obs.detections[1] # obs.detections[2]
    /\ Len(logs) = Len(obs.before) + 2

\* csv reader: the first line is the header, the others are data rows.
ParseCsv(lines) == [header |-> Head(lines), rows |-> Tail(lines)]

\* C13: export_to_csv writes the header ID,Timestamp,Class,Category,
\* Confidence and then one row per stored entry, in insertion order, with
\* the entry's id, formatted timestamp, class name, category and
\* confidence; for an empty store the file holds the header alone and
\* parses to zero data rows.
C13_CsvHasHeaderAndOneRowPerEntry ==
    (obs.call = "export_to_csv" /\ ~obs.raised) =>
        LET parsed == ParseCsv(obs.written)
        IN /\ obs.written # <<>>
           /\ parsed.header = <<"ID", "Timestamp", "Class", "Category", "Confidence">>
           /\ Len(parsed.rows) = Len(logs)
           /\ \A i \in 1..Len(logs) :
                parsed.rows[i] = <<logs[i].id, logs[i].formatted_time,
                                   logs[i].class_name, logs[i].category,
                                   logs[i].confidence>>
           /\ logs = <<>> => parsed.rows = <<>>

C13_Witness ==
    /\ obs.call = "export_to_csv"
    /\ ~obs.raised
    /\ Len(logs) >= 2
    /\ logs[1].timestamp # logs[2].timestamp
    /\ logs[1].class_name # logs[2].class_name
    /\ Len(obs.written) = Len(logs) + 1

----------------------------------------------------------------------------
(* AICore.get_sorting_decision, applied to a batch drawn in the initial    *)
(* state                                                                   *)

MaxDetections == 4

\* The state after construction, with a call waiting to be served.
InitWith(o) ==
    /\ logs = <<>>
    /\ now = 0
    /\ session_id = strftime(0)
    /\ lock = 0
    /\ pc = [t \in Threads |-> "idle"]
    /\ arg = [t \in Threads |-> NoDetection]
    /\ entry = [t \in Threads |-> NoEntry]
    /\ calls = 0
    /\ cleared = FALSE
    /\ rotated = TRUE
    /\ clearTime = 0
    /\ discarded = 0
    /\ quiet = 0
    /\ obs = o
    /\ reader = [pc |-> "idle"]
    /\ ai_core = [model |-> <<>>, model_path |-> <<>>, is_loaded |-> FALSE]

\* A detection of a class id outside CLASS_NAMES, as AICore.predict builds it.
DetUnknown ==
    [id |-> 0, class_id |-> 99, class_name |-> "class_99",
     category |-> "Unknown",
     confidence |-> 50, bbox |-> [x1 |-> 4, y1 |-> 4, x2 |-> 8, y2 |-> 8],
     color |-> "#FFFFFF"]

DecisionDetections == {DetApple, DetBag, DetPaper, DetUnknown}
DecisionBatches == UNION {[1..n -> DecisionDetections] : n \in 0..MaxDetections}

\* sum(1 for d in detections if d["category"] == c)
CategoryCountAny(detections, c) == Len(detections)
CategoryCount(detections, c) ==
    Cardinality({i \in 1..Len(detections) : detections[i].category = c})

\* (organic_count > 0 and inorganic_count > 0) or
\* (organic_count > 0 and recyclable_count > 0) or
\* (inorganic_count > 0 and recyclable_count > 0)
IsMixedTwoWay(organic_count, inorganic_count, recyclable_count) ==
    organic_count > 0 /\ inorganic_count > 0
IsMixed(organic_count, inorganic_count, recyclable_count) ==
    \/ organic_count > 0 /\ inorganic_count > 0
    \/ organic_count > 0 /\ recyclable_count > 0
    \/ inorganic_count > 0 /\ recyclable_count > 0

\* The if / elif chain that sets decision and signal.
VerdictNoIdle(total, organic_count, inorganic_count, recyclable_count) ==
    IF IsMixed(organic_count, inorganic_count, recyclable_count)
      THEN [decision |-> "SEPARATE_STREAMS", signal |-> "MIXED"]
    ELSE IF organic_count > 0
      THEN [decision |-> "ORGANIC_STREAM", signal |-> "RED"]
    ELSE IF inorganic_count > 0
      THEN [decision |-> "INORGANIC_STREAM", signal |-> "GREEN"]
    ELSE [decision |-> "RECYCLABLE_STREAM", signal |-> "BLUE"]
Verdict(total, organic_count, inorganic_count, recyclable_count) ==
    IF total = 0
      THEN [decision |-> "NO_DETECTION", signal |-> "IDLE"]
    ELSE IF IsMixed(organic_count, inorganic_count, recyclable_count)
      THEN [decision |-> "SEPARATE_STREAMS", signal |-> "MIXED"]
    ELSE IF organic_count > 0
      THEN [decision |-> "ORGANIC_STREAM", signal |-> "RED"]
    ELSE IF inorganic_count > 0
      THEN [decision |-> "INORGANIC_STREAM", signal |-> "GREEN"]
    ELSE [decision |-> "RECYCLABLE_STREAM", signal |-> "BLUE"]

\* A decision taken from the first detection alone.
DecisionByFirst(detections) ==
    LET c == IF detections = <<>> THEN "" ELSE detections[1].category
        v == Verdict(Len(detections),
                     IF c = "Organic" THEN 1 ELSE 0,
                     IF c = "Inorganic" THEN 1 ELSE 0,
                     IF c = "Recyclable" THEN 1 ELSE 0)
    IN [decision |-> v.decision,
        signal |-> v.signal,
        organic_count |-> CategoryCount(detections, "Organic"),
        inorganic_count |-> CategoryCount(detections, "Inorganic"),
        recyclable_count |-> CategoryCount(detections, "Recyclable"),
        total_count |-> Len(detections)]

get_sorting_decision(detections) ==
    LET organic_count == CategoryCount(detections, "Organic")
        inorganic_count == CategoryCount(detections, "Inorganic")
        recyclable_count == CategoryCount(detections, "Recyclable")
        v == Verdict(Len(detections), organic_count, inorganic_count,
                     recyclable_count)
    IN [decision |-> v.decision,
        signal |-> v.signal,
        organic_count |-> organic_count,
        inorganic_count |-> inorganic_count,
        recyclable_count |-> recyclable_count,
        total_count |-> Len(detections)]

InitDecide ==
    \E detections \in DecisionBatches :
        InitWith([call |-> "get_sorting_decision", state |-> "called",
                  detections |-> detections])

SortingDecision ==
    /\ obs.call = "get_sorting_decision"
    /\ obs.state = "called"
    /\ obs' = [call |-> "get_sorting_decision", state |-> "returned",
               detections |-> obs.detections,
               result |-> get_sorting_decision(obs.detections)]
    /\ UNCHANGED <<storeVars, threadVars, histVars, reader, ai_core>>

NextDecide == SortingDecision

SpecDecide == InitDecide /\ [][NextDecide]_vars

----------------------------------------------------------------------------
(* Claims about the sorting decision (checked under SpecDecide) *)

Decided == obs.call = "get_sorting_decision" /\ obs.state = "returned"

\* The positions of a batch that hold a detection of category c.
Having(detections, c) ==
    {i \in 1..Len(detections) : detections[i].category = c}

\* The categories of the taxonomy that a batch holds at least once.
Present(detections) == {c \in Taxonomy3 : Having(detections, c) # {}}

StreamOf ==
    [Organic |-> [decision |-> "ORGANIC_STREAM", signal |-> "RED"],
     Inorganic |-> [decision |-> "INORGANIC_STREAM", signal |-> "GREEN"],
     Recyclable |-> [decision |-> "RECYCLABLE_STREAM", signal |-> "BLUE"]]

CountsAreActual(detections, result) ==
    /\ result.organic_count = Cardinality(Having(detections, "Organic"))
    /\ result.inorganic_count = Cardinality(Having(detections, "Inorganic"))
    /\ result.recyclable_count = Cardinality(Having(detections, "Recyclable"))
    /\ result.total_count = Len(detections)

\* C14: the decision for the empty batch is NO_DETECTION with signal IDLE,
\* every per-category count 0 and total_count 0.
C14_EmptyBatchIsIdle ==
    (Decided /\ obs.detections = <<>>) =>
        obs.result = [decision |-> "NO_DETECTION", signal |-> "IDLE",
                      organic_count |-> 0, inorganic_count |-> 0,
                      recyclable_count |-> 0, total_count |-> 0]

C14_Witness == Decided /\ obs.detections = <<>> /\ obs.result.signal = "IDLE"

\* C15: when exactly one of Organic, Inorganic, Recyclable occurs in the
\* batch (Unknown detections may occur too), the decision and signal are
\* that category's pair, the per-category counts are the numbers of
\* detections of each category and total_count is the size of the batch.
C15_SingleCategoryGetsItsStream ==
    (Decided /\ Cardinality(Present(obs.detections)) = 1) =>
        LET c == CHOOSE x \in Present(obs.detections) : TRUE
        IN /\ obs.result.decision = StreamOf[c].decision
           /\ obs.result.signal = StreamOf[c].signal
           /\ CountsAreActual(obs.detections, obs.result)

C15_Witness ==
    /\ Decided
    /\ Present(obs.detections) = {"Inorganic"}
    /\ Cardinality(Having(obs.detections, "Inorganic")) >= 2
    /\ Having(obs.detections, "Unknown") # {}
    /\ obs.result.signal = "GREEN"

\* C16: when two or more of Organic, Inorganic, Recyclable occur in the
\* batch, the decision is SEPARATE_STREAMS with signal MIXED, whatever the
\* counts and whether or not Unknown detections occur.
C16_SeveralCategoriesAreMixed ==
    (Decided /\ Cardinality(Present(obs.detections)) >= 2) =>
        /\ obs.result.decision = "SEPARATE_STREAMS"
        /\ obs.result.signal = "MIXED"

C16_Witness ==
    /\ Decided
    /\ Present(obs.detections) = {"Organic", "Recyclable"}
    /\ Having(obs.detections, "Unknown") # {}
    /\ obs.result.signal = "MIXED"

\* The batch with its detections rearranged by the permutation p.
Permuted(detections, p) == [i \in 1..Len(detections) |-> detections[p[i]]]

\* C17: every rearrangement of a batch gets the decision, the signal and
\* the counts that the batch got.
C17_DecisionIgnoresOrder ==
    Decided =>
        \A p \in Permutations(1..Len(obs.detections)) :
            get_sorting_decision(Permuted(obs.detections, p)) = obs.result

C17_Witness ==
    /\ Decided
    /\ Len(obs.detections) >= 3
    /\ obs.detections[1].category = "Organic"
    /\ obs.detections[2].category = "Unknown"
    /\ obs.detections[3].category = "Organic"
    /\ \E p \in Permutations(1..Len(obs.detections)) :
          Permuted(obs.detections, p) # obs.detections

\* C18: a non-empty batch of Unknown detections alone gets a decision, and
\* that decision is no category's stream and its signal no category's
\* signal.
C18_AllUnknownIsUnclassified ==
    (/\ Decided
     /\ obs.detections # <<>>
     /\ Present(obs.detections) = {}) =>
        /\ obs.result.decision \notin {StreamOf[c].decision : c \in Taxonomy3}
        /\ obs.result.signal \notin {StreamOf[c].signal : c \in Taxonomy3}

----------------------------------------------------------------------------
(* config.py: the class names, their categories and the colours *)

\* CLASS_NAMES, as the list of its values in the order of the class ids
\* 0, 1, 2, ...
ClassNameList ==
    <<"Apple", "Apple-core", "Apple-peel", "Bone", "Bone-fish", "Bread",
      "Bun", "Egg-hard", "Egg-scramble", "Egg-shell", "Egg-steam",
      "Egg-yolk", "Fish", "Meat", "Mussel", "Mussel-shell", "Noodle",
      "Orange", "Orange-peel", "Other-waste", "Pancake", "Pasta", "Pear",
      "Pear-core", "Pear-peel", "Potato", "Rice", "Shrimp", "Shrimp-shell",
      "Tofu", "Tomato", "Vegetable",
      "plastic_bag", "styrofoam",
      "Cardboard", "Glass", "Metal", "Paper", "Plastic">>

CLASS_NAMES == [i \in 0..(Len(ClassNameList) - 1) |-> ClassNameList[i + 1]]

ORGANIC_CLASSES ==
    <<"Apple", "Apple-core", "Apple-peel", "Bone", "Bone-fish", "Bread",
      "Bun", "Egg-hard", "Egg-scramble", "Egg-shell", "Egg-steam",
      "Egg-yolk", "Fish", "Meat", "Mussel", "Mussel-shell", "Noodle",
      "Orange", "Orange-peel", "Other-waste", "Pancake", "Pasta", "Pear",
      "Pear-core", "Pear-peel", "Potato", "Rice", "Shrimp", "Shrimp-shell",
      "Tofu", "Tomato", "Vegetable">>
INORGANIC_CLASSES == <<"plastic_bag", "styrofoam">>
RECYCLABLE_CLASSES == <<"Cardboard", "Glass", "Metal", "Paper", "Plastic">>

get_category(class_name) ==
    IF InList(ORGANIC_CLASSES, class_name) THEN "organic"
    ELSE IF InList(INORGANIC_CLASSES, class_name) THEN "inorganic"
    ELSE IF InList(RECYCLABLE_CLASSES, class_name) THEN "recyclable"
    ELSE "unknown"

\* Colours in BGR order, for drawing
COLORS ==
    [organic |-> <<0, 165, 255>>,
     inorganic |-> <<128, 128, 128>>,
     recyclable |-> <<0, 255, 0>>]

\* Colours as hex strings, for the web client
WEB_COLORS ==
    [organic |-> "#FF6600", inorganic |-> "#808080", recyclable |-> "#00FF00"]

\* str.capitalize() and str.lower() on the category names
capitalize(s) ==
    CASE s = "organic" -> "Organic"
      [] s = "inorganic" -> "Inorganic"
      [] s = "recyclable" -> "Recyclable"
      [] s = "unknown" -> "Unknown"
      [] OTHER -> s
lower(s) ==
    CASE s = "Organic" -> "organic"
      [] s = "Inorganic" -> "inorganic"
      [] s = "Recyclable" -> "recyclable"
      [] s = "Unknown" -> "unknown"
      [] OTHER -> s

----------------------------------------------------------------------------
(* AICore.load_model, AICore.predict, AICore.draw_detections *)

MaxResults == 2
MaxBoxes == 2

\* The detector object YOLO(path) builds, and the same object after
\* self.model.to(self.device).
YOLO(path) == [weights |-> path, moved |-> FALSE]
MovedTo(m) == [m EXCEPT !.moved = TRUE]

\* load_model: what happens depends on the files present and on the
\* detector library.  Gives the singleton's fields and the value returned.
\* self.model and self.model_path are assigned before self.model.to(...)
\* is called, self.is_loaded after it.
LoadOutcomes == {"loaded", "no_file", "load_error", "device_error"}
load_model(ai, outcome) ==
    CASE outcome = "loaded" ->
           [ai_core |-> [model |-> Some(MovedTo(YOLO("best.pt"))),
                         model_path |-> Some("best.pt"),
                         is_loaded |-> TRUE],
            success |-> TRUE]
      [] outcome = "device_error" ->
           [ai_core |-> [model |-> Some(YOLO("best.pt")),
                         model_path |-> Some("best.pt"),
                         is_loaded |-> ai.is_loaded],
            success |-> FALSE]
      [] OTHER -> [ai_core |-> ai, success |-> FALSE]

\* class_name = CLASS_NAMES.get(class_id, f"class_{class_id}")
ClassName(class_id) == Get(CLASS_NAMES, class_id, "class_" \o ToString(class_id))

\* color = WEB_COLORS.get(category, "#FFFFFF")
WebColorStrict(category) ==
    IF category \in DOMAIN WEB_COLORS THEN WEB_COLORS[category] ELSE "KeyError"
WebColor(category) == Get(WEB_COLORS, category, "#FFFFFF")

\* color = COLORS.get(category_lower, (255, 255, 255))
DrawColor(category) == Get(COLORS, lower(category), <<255, 255, 255>>)

\* round(confidence, 2): the confidence, given in thousandths, to the
\* nearest hundredth.
Round2(c) ==
    LET q == c \div 10
        r == c % 10
    IN IF r < 5 THEN q
       ELSE IF r > 5 THEN q + 1
       ELSE IF q % 2 = 0 THEN q ELSE q + 1

\* int(x): a coordinate, given in tenths of a pixel, cut to whole pixels.
IntOf(x) == x \div 10

\* The detection built for the i-th box of a result.
NormalizeBox(i, box) ==
    LET class_id == box.cls
        class_name == ClassName(class_id)
        category == get_category(class_name)
    IN [id |-> i,
        bbox |-> [x1 |-> IntOf(box.xyxy[1]), y1 |-> IntOf(box.xyxy[2]),
                  x2 |-> IntOf(box.xyxy[3]), y2 |-> IntOf(box.xyxy[4])],
        class_id |-> class_id,
        class_name |-> class_name,
        confidence |-> Round2(box.conf),
        category |-> capitalize(category),
        color |-> WebColor(category)]

\* for i, box in enumerate(boxes): ... detections.append(detection)
BoxDetectionsKnown(boxes) ==
    SelectSeq([i \in 1..Len(boxes) |-> NormalizeBox(i - 1, boxes[i])],
              LAMBDA d : d.class_id \in DOMAIN CLASS_NAMES)
BoxDetections(boxes) == [i \in 1..Len(boxes) |-> NormalizeBox(i - 1, boxes[i])]

\* for result in results: boxes = result.boxes; if boxes is None: continue
RECURSIVE PredictLoop(_, _)
PredictLoop(results, detections) ==
    IF results = <<>> THEN detections
    ELSE LET boxes == Head(results).boxes
         IN IF boxes = None
              THEN PredictLoop(Tail(results), detections)
              ELSE PredictLoop(Tail(results),
                               detections \o BoxDetections(boxes[1]))

\* predict: raises when no model is loaded; results is what the detector
\* returns for the image.
PredictUnguarded(is_loaded, results) ==
    [detections |-> PredictLoop(results, <<>>)]
predict(is_loaded, results) ==
    IF ~is_loaded
      THEN [error |-> "Model not loaded. Call load_model() first."]
      ELSE [detections |-> PredictLoop(results, <<>>)]

\* draw_detections: the colour of the rectangle drawn for each detection.
draw_detections(detections) ==
    [i \in 1..Len(detections) |-> DrawColor(detections[i].category)]

----------------------------------------------------------------------------
(* main.py: startup and POST /predict/image, applied to a request drawn    *)
(* in the initial state                                                    *)

\* A raw box of class cls: class id, confidence in thousandths, corners in
\* tenths of a pixel.
RawBox(cls) == [cls |-> cls, conf |-> 914, xyxy |-> <<15, 18, 57, 59>>]

\* Class ids outside CLASS_NAMES that a detector trained on other data emits.
UnknownIds == {39, 99}

\* What the detector returns: one result per image, each with its boxes or
\* with none; up to MaxResults results of up to MaxBoxes boxes of two
\* classes, and one box of every class id.
FewBoxes == {RawBox(0), RawBox(99)}
BoxLists == UNION {[1..n -> FewBoxes] : n \in 0..MaxBoxes}
Results == {[boxes |-> None]} \cup {[boxes |-> Some(b)] : b \in BoxLists}
RawOutputs ==
    (UNION {[1..n -> Results] : n \in 1..MaxResults})
    \cup {<<[boxes |-> Some(<<RawBox(cls)>>)]>> :
             cls \in (DOMAIN CLASS_NAMES) \cup UnknownIds}

AllowedTypes == {"image/jpeg", "image/png", "image/jpg"}

Requests ==
    [content_type : {"image/jpeg", "text/plain"},
     decodes : BOOLEAN,
     draw_boxes : BOOLEAN,
     results : RawOutputs]

\* SortingDecision(**sorting): the fields of the schema
SortingDecisionSchema(sorting) ==
    [decision |-> sorting.decision,
     signal |-> sorting.signal,
     inorganic_count |-> sorting.inorganic_count,
     organic_count |-> sorting.organic_count,
     total_count |-> sorting.total_count]

\* predict_image: the store it leaves and the response it gives.
predict_image(req, is_loaded, l, t, sid) ==
    IF req.content_type \notin AllowedTypes
      THEN [logs |-> l,
            response |-> [status |-> 400, detail |-> "Invalid file type"]]
    ELSE IF ~req.decodes
      THEN [logs |-> l,
            response |-> [status |-> 500, detail |-> "Could not decode image"]]
    ELSE LET p == predict(is_loaded, req.results)
         IN IF "error" \in DOMAIN p
              THEN [logs |-> l,
                    response |-> [status |-> 500, detail |-> p.error]]
              ELSE LET detections == p.detections
                       sorting == get_sorting_decision(detections)
                       logged == add_batch_logs(l, detections, t, sid)
                       processed_image ==
                           IF req.draw_boxes /\ detections # <<>>
                             THEN [image |-> "drawn",
                                   colors |-> draw_detections(detections)]
                           ELSE IF req.draw_boxes
                             THEN [image |-> "original"]
                           ELSE [image |-> "none"]
                   IN [logs |-> logged.logs,
                       response |->
                         [status |-> 200,
                          success |-> TRUE,
                          detections |-> detections,
                          sorting_decision |-> SortingDecisionSchema(sorting),
                          processed_image |-> processed_image]]

InitPredict ==
    \E req \in Requests :
        InitWith([call |-> "POST /predict/image", state |-> "startup",
                  request |-> req])

\* startup_event: success = ai_core.load_model(); the server then accepts
\* requests whether or not the model was loaded.
Startup(outcome) ==
    /\ obs.state = "startup"
    /\ ai_core' = load_model(ai_core, outcome).ai_core
    /\ obs' = [obs EXCEPT !.state = "called"]
    /\ UNCHANGED <<storeVars, threadVars, histVars, reader>>

PredictImage ==
    /\ obs.call = "POST /predict/image"
    /\ obs.state = "called"
    /\ LET out == predict_image(obs.request, ai_core.is_loaded, logs, now,
                                session_id)
       IN /\ logs' = out.logs
          /\ obs' = [call |-> "POST /predict/image", state |-> "returned",
                     request |-> obs.request, response |-> out.response]
    /\ UNCHANGED <<session_id, lock, now, threadVars, histVars, reader, ai_core>>

NextPredict ==
    \/ \E outcome \in LoadOutcomes : Startup(outcome)
    \/ PredictImage

SpecPredict == InitPredict /\ [][NextPredict]_vars

----------------------------------------------------------------------------
(* Claims about the taxonomy and predict (checked under SpecPredict) *)

\* The request was served with the model loaded and the image decoded.
Predicted ==
    /\ obs.call = "POST /predict/image"
    /\ obs.state = "returned"
    /\ obs.response.status = 200

\* The categories whose class list holds the name.
ListsHolding(class_name) ==
    {c \in {"organic", "inorganic", "recyclable"} :
        \/ c = "organic" /\ InList(ORGANIC_CLASSES, class_name)
        \/ c = "inorganic" /\ InList(INORGANIC_CLASSES, class_name)
        \/ c = "recyclable" /\ InList(RECYCLABLE_CLASSES, class_name)}

HexColours == {"#FF6600", "#808080", "#00FF00", "#FFFFFF"}
BgrColours == {<<0, 165, 255>>, <<128, 128, 128>>, <<0, 255, 0>>, <<255, 255, 255>>}
NamesOutsideTaxonomy == {"", "apple", "Unknown", "class_99", "Banana"}

\* C19: every one of the 39 configured class names is in exactly one of
\* the three class lists and a detection of it carries that category; a
\* detection of any other name carries Unknown; every detection gets a
\* colour in the web encoding and, when drawn, in the drawing encoding,
\* which for Unknown is the neutral default (white).
C19_TaxonomyTotalAndExclusive ==
    /\ \A name \in NamesOutsideTaxonomy : get_category(name) = "unknown"
    /\ Predicted =>
        \A i \in 1..Len(obs.response.detections) :
            LET d == obs.response.detections[i]
                image == obs.response.processed_image
            IN /\ d.class_id \in 0..38 =>
                    /\ Cardinality(ListsHolding(d.class_name)) = 1
                    /\ d.category \in Taxonomy3
                    /\ lower(d.category) \in ListsHolding(d.class_name)
               /\ d.class_id \notin 0..38 => d.category = "Unknown"
               /\ d.color \in HexColours
               /\ d.category = "Unknown" => d.color = "#FFFFFF"
               /\ image.image = "drawn" =>
                    /\ image.colors[i] \in BgrColours
                    /\ d.category = "Unknown" =>
                          image.colors[i] = <<255, 255, 255>>

C19_Witness ==
    /\ Predicted
    /\ Len(obs.response.detections) = 1
    /\ obs.response.detections[1].class_id = 39
    /\ obs.response.detections[1].category = "Unknown"
    /\ obs.response.processed_image.image = "drawn"

\* The boxes of a detector output, result after result.
RECURSIVE EmittedBoxes(_)
EmittedBoxes(results) ==
    IF results = <<>> THEN <<>>
    ELSE (IF Head(results).boxes = None THEN <<>> ELSE Head(results).boxes[1])
         \o EmittedBoxes(Tail(results))

\* C20: predict gives one detection per box the detector emitted, in the
\* order of emission; a box whose class id is not in CLASS_NAMES gives a
\* detection named class_<id> of category Unknown; every detection,
\* those included, is counted by the sorting decision and appended to the
\* log.
C20_OneDetectionPerBox ==
    Predicted =>
        LET boxes == EmittedBoxes(obs.request.results)
            dets == obs.response.detections
        IN /\ Len(dets) = Len(boxes)
           /\ \A k \in 1..Len(boxes) :
                /\ dets[k].class_id = boxes[k].cls
                /\ boxes[k].cls \in 0..38 =>
                      dets[k].class_name = ClassNameList[boxes[k].cls + 1]
                /\ boxes[k].cls \notin 0..38 =>
                      /\ dets[k].class_name = "class_" \o ToString(boxes[k].cls)
                      /\ dets[k].category = "Unknown"
           /\ obs.response.sorting_decision.total_count = Len(boxes)
           /\ Len(logs) = Len(boxes)
           /\ \A k \in 1..Len(boxes) :
                /\ logs[k].id = k
                /\ logs[k].class_name = dets[k].class_name
                /\ logs[k].category = dets[k].category
                /\ logs[k].confidence = dets[k].confidence

C20_Witness ==
    /\ Predicted
    /\ Len(obs.request.results) = 2
    /\ Len(obs.response.detections) = 3
    /\ obs.response.detections[1].class_name = "class_99"
    /\ obs.response.detections[2].class_name = "Apple"
    /\ obs.response.detections[3].class_name = "class_99"
    /\ Len(logs) = 3
    /\ logs[3].category = "Unknown"

\* C21: the detections one predict call returns have pairwise distinct
\* ids, whatever the number of results the detector gave and the boxes of
\* each.
C21_IdsDistinctWithinCall ==
    Predicted =>
        \A i, j \in 1..Len(obs.response.detections) :
            i # j => obs.response.detections[i].id # obs.response.detections[j].id

\* The request reached ai_core.predict: its content type is accepted and
\* its image decodes.
ReachedPredict ==
    /\ obs.call = "POST /predict/image"
    /\ obs.state = "returned"
    /\ obs.request.content_type \in AllowedTypes
    /\ obs.request.decodes

\* C23: a prediction requested while the model is not loaded fails with a
\* reported error: the response is an error that carries predict's
\* message, it holds no detections, and nothing is added to the store.
C23_NotLoadedFailsTheCall ==
    (ReachedPredict /\ ~ai_core.is_loaded) =>
        /\ obs.response.status = 500
        /\ obs.response.detail = "Model not loaded. Call load_model() first."
        /\ "detections" \notin DOMAIN obs.response
        /\ logs = <<>>

C23_Witness ==
    /\ ReachedPredict
    /\ ~ai_core.is_loaded
    /\ ai_core.model # None
    /\ EmittedBoxes(obs.request.results) # <<>>
    /\ obs.response.status = 500

----------------------------------------------------------------------------
(* More claims about add_log beside other threads (checked under Spec) *)

\* C30: the two time fields of every stored entry denote one instant:
\* formatted_time is the timestamp cut to the whole second, whatever the
\* clock does while add_log runs.
C30_TimeFieldsAgree ==
    \A i \in 1..Len(logs) : logs[i].formatted_time = logs[i].timestamp.sec

----------------------------------------------------------------------------
(* main.py: POST /predict/frame and one message of /ws/stream, applied to  *)
(* a frame drawn in the initial state                                      *)

\* base64_to_cv2(frame_data): an image, None (the bytes are no image), or
\* an exception (the text is no base64, or it decodes to no bytes at all).
DecodeOutcomes == {"image", "none", "raises"}

\* A frame: how its data decodes and what the detector returns for it.
Frames == [decode : DecodeOutcomes, results : RawOutputs]

\* predict_frame: the store it leaves and the response it gives.
predict_frame(req, is_loaded, l, t, sid) ==
    IF req.decode = "raises"
      THEN [logs |-> l,
            response |-> [status |-> 500, detail |-> "decode error"]]
    ELSE IF req.decode = "none"
      THEN [logs |-> l,
            response |-> [status |-> 500, detail |-> "Could not decode frame"]]
    ELSE LET p == predict(is_loaded, req.results)
         IN IF "error" \in DOMAIN p
              THEN [logs |-> l,
                    response |-> [status |-> 500, detail |-> p.error]]
              ELSE LET detections == p.detections
                       sorting == get_sorting_decision(detections)
                       logged ==
                           IF detections # <<>>
                             THEN add_batch_logs(l, detections, t, sid).logs
                             ELSE l
                   IN [logs |-> logged,
                       response |->
                         [status |-> 200,
                          success |-> TRUE,
                          detections |-> detections,
                          sorting_decision |-> sorting,
                          processed_image |->
                              [image |-> "drawn",
                               colors |-> draw_detections(detections)]]]

\* One turn of websocket_stream's loop on a received message that carries
\* a frame: the store it leaves and what becomes of the connection.
\* "skipped": nothing is sent and the loop waits for the next message;
\* "raised": an exception other than WebSocketDisconnect leaves the handler.
websocket_frame(msg, is_loaded, l, t, sid) ==
    IF msg.decode = "raises"
      THEN [logs |-> l, response |-> [outcome |-> "raised"]]
    ELSE IF msg.decode = "none"
      THEN [logs |-> l, response |-> [outcome |-> "skipped"]]
    ELSE LET p == predict(is_loaded, msg.results)
         IN IF "error" \in DOMAIN p
              THEN [logs |-> l, response |-> [outcome |-> "raised"]]
              ELSE LET detections == p.detections
                       sorting == get_sorting_decision(detections)
                       logged ==
                           IF detections # <<>>
                             THEN add_batch_logs(l, detections, t, sid).logs
                             ELSE l
                   IN [logs |-> logged,
                       response |->
                         [outcome |-> "sent",
                          detections |-> detections,
                          sorting_decision |-> sorting,
                          processed_image |->
                              [image |-> "drawn",
                               colors |-> draw_detections(detections)],
                          statistics |-> get_statistics(logged, sid)]]

InitFrames ==
    \E frame \in Frames, call \in {"POST /predict/frame", "WS /ws/stream"} :
        InitWith([call |-> call, state |-> "startup", request |-> frame])

PredictFrame ==
    /\ obs.call = "POST /predict/frame"
    /\ obs.state = "called"
    /\ LET out == predict_frame(obs.request, ai_core.is_loaded, logs, now,
                                session_id)
       IN /\ logs' = out.logs
          /\ obs' = [call |-> "POST /predict/frame", state |-> "returned",
                     request |-> obs.request, response |-> out.response]
    /\ UNCHANGED <<session_id, lock, now, threadVars, histVars, reader, ai_core>>

WebsocketFrame ==
    /\ obs.call = "WS /ws/stream"
    /\ obs.state = "called"
    /\ LET out == websocket_frame(obs.request, ai_core.is_loaded, logs, now,
                                  session_id)
       IN /\ logs' = out.logs
          /\ obs' = [call |-> "WS /ws/stream", state |-> "returned",
                     request |-> obs.request, response |-> out.response]
    /\ UNCHANGED <<session_id, lock, now, threadVars, histVars, reader, ai_core>>

InitHandlers == InitPredict \/ InitFrames

NextHandlers ==
    \/ \E outcome \in LoadOutcomes : Startup(outcome)
    \/ PredictImage
    \/ PredictFrame
    \/ WebsocketFrame

SpecHandlers == InitHandlers /\ [][NextHandlers]_vars

----------------------------------------------------------------------------
(* Claims about the three prediction paths (checked under SpecHandlers) *)

\* The handler was given bytes that are no image.
Undecodable ==
    /\ obs.state = "returned"
    /\ \/ /\ obs.call = "POST /predict/image"
          /\ obs.request.content_type \in AllowedTypes
          /\ ~obs.request.decodes
       \/ /\ obs.call \in {"POST /predict/frame", "WS /ws/stream"}
          /\ obs.request.decode # "image"

\* The caller was told of an error: an HTTP error status, or on the
\* socket an exception that ends the stream.
ErrorReported ==
    IF obs.call = "WS /ws/stream"
      THEN obs.response.outcome = "raised"
      ELSE obs.response.status >= 400

\* C29: on every prediction path a frame that cannot be decoded gives an
\* error reported to the caller; it is not skipped silently, not processed
\* as a frame, and adds nothing to the store.
C29_UndecodableIsReported ==
    Undecodable =>
        /\ ErrorReported
        /\ logs = <<>>

----------------------------------------------------------------------------
(* LogManager.export_to_excel, LogManager.save_session and main.py's       *)
(* shutdown_event, run alone                                               *)

\* filename = f"logs_{self.session_id}.xlsx" unless one is given
ExcelFilename(filename, sid) ==
    IF filename = None THEN <<"logs_", sid, ".xlsx">> ELSE filename[1]

\* The sheet 'Detection Logs': pd.DataFrame(columns=[...]) when lines is
\* empty, else the renamed columns of pd.DataFrame(lines).
LogSheet(l) == <<CsvHeader>> \o CsvRows(l)

\* The sheet 'Statistics': one row taken from the statistics dictionary.
StatisticsSheet(stats) ==
    <<<<"Total Detections", "Inorganic Count", "Organic Count",
        "Inorganic %", "Organic %">>,
      <<stats.total_detections, stats.inorganic_count, stats.organic_count,
        stats.inorganic_percentage, stats.organic_percentage>>>>

\* export_to_excel: the path returned and the two sheets written, or the
\* exception that leaves the method.
ExportExcel(l, sid, filename, disk) ==
    IF disk = "ok"
      THEN [raised |-> FALSE,
            path |-> <<"logs", ExcelFilename(filename, sid)>>,
            log_sheet |-> LogSheet(l),
            statistics_sheet |-> StatisticsSheet(get_statistics(l, sid))]
      ELSE [raised |-> TRUE, error |-> "OSError"]

SeqExportExcel(filename, disk) ==
    /\ LET r == ExportExcel(logs, session_id, filename, disk)
       IN obs' = IF r.raised
                   THEN [call |-> "export_to_excel",
                         filename |-> filename,
                         disk |-> disk,
                         before |-> [logs |-> logs, session_id |-> session_id],
                         raised |-> TRUE,
                         error |-> r.error]
                   ELSE [call |-> "export_to_excel",
                         filename |-> filename,
                         disk |-> disk,
                         before |-> [logs |-> logs, session_id |-> session_id],
                         raised |-> FALSE,
                         result |-> r.path,
                         log_sheet |-> r.log_sheet,
                         statistics_sheet |-> r.statistics_sheet]
    /\ UNCHANGED <<storeVars, threadVars, histVars, reader, ai_core>>

\* save_session: if self.logs: self.export_to_csv()
\* exported tells whether export_to_csv was called.
save_session(l, sid, disk) ==
    IF l # <<>>
      THEN LET r == ExportCsv(l, sid, None, disk)
           IN IF r.raised
                THEN [exported |-> TRUE, raised |-> TRUE, written |-> <<>>]
                ELSE [exported |-> TRUE, raised |-> FALSE, written |-> r.written]
      ELSE [exported |-> FALSE, raised |-> FALSE, written |-> <<>>]

SeqSaveSession(disk) ==
    /\ LET r == save_session(logs, session_id, disk)
       IN obs' = [call |-> "save_session",
                  disk |-> disk,
                  before |-> [logs |-> logs, session_id |-> session_id],
                  exported |-> r.exported,
                  raised |-> r.raised,
                  written |-> r.written]
    /\ UNCHANGED <<storeVars, threadVars, histVars, reader, ai_core>>

\* shutdown_event: log_manager.save_session(); print(...)
\* There is no try around the call: an exception of save_session leaves
\* the handler before its last statement.
shutdown_event(l, sid, disk) ==
    LET r == save_session(l, sid, disk)
    IN [exported |-> r.exported,
        raised |-> r.raised,
        completed |-> ~r.raised,
        written |-> r.written]

ShutdownEvent(disk) ==
    /\ LET r == shutdown_event(logs, session_id, disk)
       IN obs' = [call |-> "shutdown_event",
                  disk |-> disk,
                  before |-> [logs |-> logs, session_id |-> session_id],
                  exported |-> r.exported,
                  raised |-> r.raised,
                  completed |-> r.completed,
                  written |-> r.written]
    /\ UNCHANGED <<storeVars, threadVars, histVars, reader, ai_core>>

\* The process serves calls until it has shut down.
Running == obs.call # "shutdown_event"

NextExport ==
    /\ Running
    /\ \/ Tick
       \/ \E det \in QueryDetections :
             Len(logs) < MaxQueryLogs /\ SeqAddLog(det)
       \/ SeqClearLogs
       \/ \E limit \in LimitArgs, class_filter \in ClassFilterArgs :
             SeqGetLogs(limit, class_filter, None, None, None)
       \/ SeqGetStatistics
       \/ \E filename \in FilenameArgs, disk \in DiskOutcomes :
             SeqExportCsv(filename, disk)
       \/ \E filename \in FilenameArgs, disk \in DiskOutcomes :
             SeqExportExcel(filename, disk)
       \/ \E disk \in DiskOutcomes : SeqSaveSession(disk)
       \/ \E disk \in DiskOutcomes : ShutdownEvent(disk)

SpecExport == Init /\ [][NextExport]_vars

----------------------------------------------------------------------------
(* Claims about exports, shutdown and the store's frame (checked under     *)
(* SpecExport)                                                             *)

\* C22: when export_to_csv raises inside the shutdown handler, the error
\* is swallowed and the handler runs to completion.
C22_ShutdownSurvivesExportFailure ==
    (obs.call = "shutdown_event" /\ obs.exported /\ obs.disk = "fails") =>
        /\ ~obs.raised
        /\ obs.completed

\* C24: an interactive export (export_to_csv, export_to_excel) that meets
\* a file system failure raises to its caller and returns no path, and
\* the store's entries and session id are as before the call.
C24_ExportFailureIsRaised ==
    (obs.call \in {"export_to_csv", "export_to_excel"} /\ obs.disk = "fails") =>
        /\ obs.raised
        /\ "result" \notin DOMAIN obs
        /\ logs = obs.before.logs
        /\ session_id = obs.before.session_id

C24_Witness ==
    /\ obs.call = "export_to_excel"
    /\ obs.disk = "fails"
    /\ obs.raised
    /\ Len(logs) >= 1

\* C28: a shutdown on a working file system writes the session's CSV file
\* whatever the store holds: one row per entry under the header, and the
\* header alone when the store is empty.
C28_ShutdownAlwaysExports ==
    (obs.call = "shutdown_event" /\ obs.disk = "ok") =>
        /\ obs.exported
        /\ obs.written = <<CsvHeader>> \o CsvRows(obs.before.logs)

\* l is an initial part of m: every entry of l is in m, at its place and
\* as it was.
IsPrefix(l, m) ==
    /\ Len(l) <= Len(m)
    /\ \A i \in 1..Len(l) : l[i] = m[i]

\* The calls that only read the store.
ReadOnlyCalls ==
    {"get_logs", "get_statistics", "export_to_csv", "export_to_excel",
     "save_session", "shutdown_event"}

\* C26: the store is append-only until cleared.  A step of get_logs,
\* get_statistics, export_to_csv, export_to_excel or save_session leaves
\* the entry list and the session id as they are; a step of add_log keeps
\* every stored entry in place and adds at most one at the end; only
\* clear_logs removes or changes an entry or changes the session id.
C26_AppendOnlyUntilCleared ==
    [][/\ obs'.call \in ReadOnlyCalls =>
            (logs' = logs /\ session_id' = session_id)
       /\ obs'.call = "add_log" =>
            /\ session_id' = session_id
            /\ IsPrefix(logs, logs')
            /\ Len(logs') <= Len(logs) + 1
       /\ (~IsPrefix(logs, logs') \/ session_id' # session_id) =>
            obs'.call = "clear_logs"]_vars

\* get_logs has returned the stored entries in another order than the
\* store's, and the store still has them in the order of insertion.
C26_Witness ==
    /\ obs.call = "get_logs"
    /\ Len(logs) >= 2
    /\ Len(obs.result) = Len(logs)
    /\ obs.result[1] = logs[2]
    /\ logs[1].id = 1
    /\ logs[2].id = 2

----------------------------------------------------------------------------
(* LogManager.export_to_excel, statement by statement, run by one more     *)
(* thread while the threads of Spec append and clear.  The method takes no *)
(* lock and evaluates self.logs three times: in its emptiness test, in     *)
(* pd.DataFrame(self.logs) and inside get_statistics.  The call of         *)
(* get_statistics is taken as one step, reading the list as it is then.    *)

\* filename = f"logs_{self.session_id}.xlsx"; if not self.logs: df = the
\* frame of the five header columns and no row
ExcelCall ==
    /\ reader.pc \in {"idle", "excel_done"}
    /\ reader' =
         IF logs = <<>>
           THEN [pc |-> "excel_stats",
                 filename |-> ExcelFilename(None, session_id),
                 df |-> LogSheet(<<>>)]
           ELSE [pc |-> "excel_frame",
                 filename |-> ExcelFilename(None, session_id)]
    /\ UNCHANGED <<storeVars, threadVars, histVars, obs, ai_core>>

\* df = pd.DataFrame(self.logs); df = df[[...]]; df.columns = [...]
\* A list emptied since the test gives a frame without columns, and the
\* column selection raises KeyError.
ExcelFrame ==
    /\ reader.pc = "excel_frame"
    /\ reader' =
         IF logs = <<>>
           THEN [pc |-> "excel_done", raised |-> TRUE, error |-> "KeyError"]
           ELSE [pc |-> "excel_stats",
                 filename |-> reader.filename,
                 df |-> LogSheet(logs)]
    /\ UNCHANGED <<storeVars, threadVars, histVars, obs, ai_core>>

\* stats = self.get_statistics(); stats_df = pd.DataFrame([{...}])
ExcelStats ==
    /\ reader.pc = "excel_stats"
    /\ reader' = [pc |-> "excel_write",
                  filename |-> reader.filename,
                  df |-> reader.df,
                  stats_df |-> StatisticsSheet(get_statistics(logs, session_id))]
    /\ UNCHANGED <<storeVars, threadVars, histVars, obs, ai_core>>

\* with pd.ExcelWriter(filepath) as writer: both sheets; return str(filepath)
ExcelWrite ==
    /\ reader.pc = "excel_write"
    /\ reader' = [pc |-> "excel_done",
                  raised |-> FALSE,
                  path |-> <<"logs", reader.filename>>,
                  log_sheet |-> reader.df,
                  statistics_sheet |-> reader.stats_df]
    /\ UNCHANGED <<storeVars, threadVars, histVars, obs, ai_core>>

NextExcel ==
    \/ Next
    \/ ExcelCall
    \/ ExcelFrame
    \/ ExcelStats
    \/ ExcelWrite

SpecExcel == Init /\ [][NextExcel]_vars

----------------------------------------------------------------------------
(* Claims about export_to_excel beside writers (checked under SpecExcel) *)

\* C25: in every workbook export_to_excel writes, whatever add_log and
\* clear_logs do meanwhile, the Total Detections cell of the Statistics
\* sheet equals the number of data rows of the Detection Logs sheet.
C25_SheetsDescribeOneState ==
    (reader.pc = "excel_done" /\ ~reader.raised) =>
        reader.statistics_sheet[2][1] = Len(reader.log_sheet) - 1

----------------------------------------------------------------------------
(* LogManager.get_logs, statement by statement, run by one more thread     *)
(* while a thread of Spec appends and clears.  The method takes no lock.   *)
(* It evaluates self.logs once, in self.logs.copy(); every later statement *)
(* works on the local list filtered.  list.copy() is one call into the     *)
(* interpreter, which no other thread's append interleaves with, and       *)
(* clear_logs binds a new list instead of emptying the old one: the copy   *)
(* holds what the list held at one moment of the call.                     *)

\* The threads that write beside the reader of get_logs.
Writers == {1}

SnapshotLimits == {None, Some(1)}
SnapshotClassFilters == {None, Some(<<"Apple", "Paper">>)}

\* A copy that misses the newest entry.
ListCopyStale(l) == SubSeq(l, 1, Len(l) - 1)

\* list.copy(): a new list of the same entries
ListCopy(l) == l

\* The call: the arguments are bound.
GetLogsCall(limit, class_filter) ==
    /\ reader.pc \in {"idle", "logs_done"}
    /\ reader' = [pc |-> "logs_copy",
                  limit |-> limit,
                  class_filter |-> class_filter,
                  at_call |-> logs]
    /\ UNCHANGED <<storeVars, threadVars, histVars, obs, ai_core>>

\* filtered = self.logs.copy()
GetLogsCopy ==
    /\ reader.pc = "logs_copy"
    /\ reader' = [pc |-> "logs_filter",
                  limit |-> reader.limit,
                  class_filter |-> reader.class_filter,
                  at_call |-> reader.at_call,
                  at_copy |-> logs,
                  filtered |-> ListCopy(logs)]
    /\ UNCHANGED <<storeVars, threadVars, histVars, obs, ai_core>>

\* if class_filter: filtered = [...]; the filters by category and by time
\* find their arguments None
GetLogsFilter ==
    /\ reader.pc = "logs_filter"
    /\ reader' = [reader EXCEPT
                    !.pc = "logs_sort",
                    !.filtered = FilterClass(reader.filtered,
                                             reader.class_filter)]
    /\ UNCHANGED <<storeVars, threadVars, histVars, obs, ai_core>>

\* filtered.sort(key=lambda x: x["timestamp"], reverse=True)
GetLogsSort ==
    /\ reader.pc = "logs_sort"
    /\ reader' = [reader EXCEPT
                    !.pc = "logs_return",
                    !.filtered = SortByTimestampDesc(reader.filtered)]
    /\ UNCHANGED <<storeVars, threadVars, histVars, obs, ai_core>>

\* if limit: filtered = filtered[:limit]; return filtered
GetLogsReturn ==
    /\ reader.pc = "logs_return"
    /\ reader' = [pc |-> "logs_done",
                  limit |-> reader.limit,
                  class_filter |-> reader.class_filter,
                  at_call |-> reader.at_call,
                  at_copy |-> reader.at_copy,
                  at_return |-> logs,
                  result |-> ApplyLimit(reader.filtered, reader.limit)]
    /\ UNCHANGED <<storeVars, threadVars, histVars, obs, ai_core>>

NextSnapshot ==
    \/ Tick
    \/ \E t \in Writers :
        \/ \E det \in ConcDetections(t) : CallAddLog(t, det)
        \/ AddLogReadClock(t)
        \/ AddLogReadSession(t)
        \/ AddLogAppend(t)
        \/ AddLogReturn(t)
        \/ ClearLogs(t)
        \/ ClearSession(t)
    \/ \E limit \in SnapshotLimits, class_filter \in SnapshotClassFilters :
         GetLogsCall(limit, class_filter)
    \/ GetLogsCopy
    \/ GetLogsFilter
    \/ GetLogsSort
    \/ GetLogsReturn

SpecSnapshot == Init /\ [][NextSnapshot]_vars

----------------------------------------------------------------------------
(* Claims about get_logs beside a writer (checked under SpecSnapshot) *)

\* Every field of the entry has been evaluated.  The two time fields are
\* evaluated one after the other; the detections of the writers carry a
\* class name, a category and a bounding box.
Complete(e) ==
    /\ e.id # Unset
    /\ e.formatted_time # Unset
    /\ e.timestamp \in [sec : Nat, frac : Nat]
    /\ e.class_name # ""
    /\ e.category # ""
    /\ e.confidence # Unset
    /\ e.bbox # <<>>
    /\ e.session_id # Unset

\* C27: whatever add_log and clear_logs do meanwhile, every entry get_logs
\* returns is complete, and the result is the answer to the query over one
\* state of the list: the one it held when the copy was taken, between the
\* call and the return.
C27_ReadsOneSnapshot ==
    (reader.pc = "logs_done") =>
        /\ \A i \in 1..Len(reader.result) : Complete(reader.result[i])
        /\ reader.result = get_logs(reader.at_copy, reader.limit,
                                    reader.class_filter, None, None, None)

\* A get_logs that returned entries although the writer changed the list
\* both between the call and the copy and between the copy and the return.
C27_Witness ==
    /\ reader.pc = "logs_done"
    /\ reader.result # <<>>
    /\ reader.at_call # reader.at_copy
    /\ reader.at_return # reader.at_copy

----------------------------------------------------------------------------
(* AICore as an object: load_model and predict called in any order on the  *)
(* singleton built by AICore()                                             *)

InitLoad == InitWith([call |-> "AICore()", returned_true |-> FALSE])

\* success = ai_core.load_model()
LoadModel(outcome) ==
    /\ LET out == load_model(ai_core, outcome)
       IN /\ ai_core' = out.ai_core
          /\ obs' = [call |-> "load_model",
                     outcome |-> outcome,
                     before |-> ai_core,
                     success |-> out.success,
                     returned_true |-> obs.returned_true \/ out.success]
    /\ UNCHANGED <<storeVars, threadVars, histVars, reader>>

\* detections = ai_core.predict(image)
Predict(results) ==
    /\ obs' = [call |-> "predict",
               results |-> results,
               out |-> predict(ai_core.is_loaded, results),
               returned_true |-> obs.returned_true]
    /\ UNCHANGED <<storeVars, threadVars, histVars, reader, ai_core>>

NextLoad ==
    \/ \E outcome \in LoadOutcomes : LoadModel(outcome)
    \/ \E results \in RawOutputs : Predict(results)

SpecLoad == InitLoad /\ [][NextLoad]_vars

----------------------------------------------------------------------------
(* Claims about model readiness (checked under SpecLoad) *)

\* C31: after any sequence of load_model calls, is_loaded is true only if
\* a model object and its path are set and that object was moved to the
\* device; a load_model that returns False leaves is_loaded as it was; and
\* once a load_model has returned True, predict does not raise the
\* not-loaded error.
C31_ReadinessConsistent ==
    /\ ai_core.is_loaded =>
          /\ ai_core.model # None
          /\ ai_core.model_path # None
          /\ ai_core.model[1].moved
    /\ (obs.call = "load_model" /\ ~obs.success) =>
          ai_core.is_loaded = obs.before.is_loaded
    /\ (obs.call = "predict" /\ obs.returned_true) =>
          "error" \notin DOMAIN obs.out

====
